---- MODULE Spec2Model ----
(***************************************************************************)
(* A model of umi_tools/umi_methods.py: the windowed read bundler          *)
(* (get_bundles with get_read_position), the gene-level counter            *)
(* (get_gene_count) and the two-pass mate writer (TwoPassPairWriter).      *)
(*                                                                         *)
(* Conventions.  Python dictionaries are functions whose DOMAIN is the set *)
(* of live keys.  A generator is modelled by one action per loop iteration *)
(* (the whole body, every yield of the iteration appended to `out` in      *)
(* order) and one action for the code after the loop.  Reference ids and   *)
(* gene names are strings, so that the initial last_chr = "" compares      *)
(* unequal to every one of them as it does in Python.  random.random() is  *)
(* a draw u/Grid with u in 0..Grid-1.                                      *)
(***************************************************************************)
EXTENDS Integers, Sequences, FiniteSets, TLC

VARIABLES
    cfg,          \* keyword arguments of the running generator
    pool,         \* the records the input stream is drawn from
    inreads,      \* history: the records consumed so far, with the draws used
    last_pos,     \* get_bundles: watermark (start of the read that last flushed)
    last_chr,     \* get_bundles: last contig id / outer key
    reads_dict,   \* get_bundles: pos -> key -> umi -> bucket
    read_counts,  \* get_bundles: pos -> key -> umi -> tie counter
    read_events,  \* get_bundles: event label -> count
    out,          \* get_bundles: the items yielded so far, in order
    done,         \* the generator is exhausted
    gc,           \* get_gene_count: its locals and the triples it yielded
    infile,       \* TwoPassPairWriter: the source, in file order
    outfile,      \* TwoPassPairWriter: the records written, in order
    read1s,       \* TwoPassPairWriter: pending mate keys
    chrom,        \* TwoPassPairWriter: tracked contig
    calls,        \* history: the calls made on the writer, in order
    closed,       \* TwoPassPairWriter: close() has run
    ucall         \* the last call of a plain function: arguments and outcome

vars == <<cfg, pool, inreads, last_pos, last_chr, reads_dict, read_counts,
          read_events, out, done, gc, infile, outfile, read1s, chrom, calls,
          closed, ucall>>

bundler_vars == <<last_pos, last_chr, reads_dict, read_counts, read_events, out>>
writer_vars == <<infile, outfile, read1s, chrom, calls, closed>>

----------------------------------------------------------------------------
(* Bounds *)

MaxReads == 4       \* records consumed by one run of a generator
Grid == 2           \* random.random() returns u/Grid, u in 0..Grid-1
MaxWrites == 3      \* write() calls on one writer
MaxName == 4        \* characters of a read name or of a tag value
MaxCigar == 3       \* operations of a CIGAR
MaxClip == 2        \* length of a soft clip, and the soft-clip threshold

(* Program constants *)

FlushMargin == 1000

Draws == 0 .. (Grid - 1)

----------------------------------------------------------------------------
(* Dictionaries *)

EmptyDict == [x \in {} |-> 0]

Put(f, k, v) == [x \in (DOMAIN f) \cup {k} |-> IF x = k THEN v ELSE f[x]]

Drop(f, ks) == [x \in (DOMAIN f) \ ks |-> f[x]]

RECURSIVE SeqOf(_)
SeqOf(S) ==
    IF S = {} THEN <<>>
    ELSE LET x == CHOOSE y \in S : TRUE IN <<x>> \o SeqOf(S \ {x})

RECURSIVE SumSeq(_)
SumSeq(q) == IF q = <<>> THEN 0 ELSE Head(q) + SumSeq(Tail(q))

Last(q) == q[Len(q)]

----------------------------------------------------------------------------
(* Read records: the capability set the code uses *)

NoRef == "*"
TidOrder == <<"chr1", "chr2", "chr3">>
Rank(tid) == CHOOSE i \in 1..Len(TidOrder) : TidOrder[i] = tid

BaseRead ==
    [qname |-> <<0, "AAAA">>,       \* the name, split at the separator
     is_read1 |-> TRUE, is_read2 |-> FALSE,
     is_unmapped |-> FALSE, mate_is_unmapped |-> FALSE,
     mapq |-> 30, tid |-> "chr1", pos |-> 100, aend |-> 150,
     cigar |-> << <<0, 50>> >>, is_reverse |-> FALSE,
     tlen |-> 200, query_length |-> 50,
     tags |-> [XF |-> "Gene1", NH |-> 1, X0 |-> 1, XT |-> "U"]]

get_tag(read, tag) == read.tags[tag]

opt(read, tag) == read.tags[tag]

get_umi_read_id(read) == Last(read.qname)

(* re.search over the gene names of the model: the pairs (regex, name) in  *)
(* which the regex is found.                                               *)
RegexMatches == {<<"Unassigned.*", "Unassigned_Ambiguity">>}

re_search(regex, s) == <<regex, s>> \in RegexMatches

(* Mutant of get_read_position: a soft clip of exactly the threshold sets  *)
(* the splice flag                                                         *)
get_read_position_AtLeast(read, soft_clip_threshold) ==
    LET first == read.cigar[1]
        last == read.cigar[Len(read.cigar)]
        hasN == \E i \in 1..Len(read.cigar) : read.cigar[i][1] = 3
    IN  IF read.is_reverse
        THEN [start |-> read.pos,
              pos |-> IF last[1] = 4 THEN read.aend + last[2] ELSE read.aend,
              is_spliced |-> hasN \/ (first[1] = 4 /\ first[2] >= soft_clip_threshold)]
        ELSE LET p == IF first[1] = 4 THEN read.pos - first[2] ELSE read.pos
             IN [start |-> p, pos |-> p,
                 is_spliced |-> hasN \/ (last[1] = 4 /\ last[2] >= soft_clip_threshold)]

get_read_position(read, soft_clip_threshold) ==
    LET first == read.cigar[1]
        last == read.cigar[Len(read.cigar)]
        hasN == \E i \in 1..Len(read.cigar) : read.cigar[i][1] = 3
    IN  IF read.is_reverse
        THEN [start |-> read.pos,
              pos |-> IF last[1] = 4 THEN read.aend + last[2] ELSE read.aend,
              is_spliced |-> hasN \/ (first[1] = 4 /\ first[2] > soft_clip_threshold)]
        ELSE LET p == IF first[1] = 4 THEN read.pos - first[2] ELSE read.pos
             IN [start |-> p, pos |-> p,
                 is_spliced |-> hasN \/ (last[1] = 4 /\ last[2] > soft_clip_threshold)]

----------------------------------------------------------------------------
(* get_bundles *)

NoTag == ""

DefaultCfg ==
    [ignore_umi |-> FALSE, subset |-> 0, quality_threshold |-> 0,
     paired |-> FALSE, spliced |-> FALSE, soft_clip_threshold |-> 0,
     per_contig |-> FALSE, gene_tag |-> NoTag, skip_regex |-> "",
     whole_contig |-> FALSE, read_length |-> FALSE,
     detection_method |-> "none", all_reads |-> FALSE,
     return_read2 |-> FALSE, return_unmapped |-> FALSE]

EventLabels ==
    {"Input Reads", "Both unmapped", "Read 1 unmapped", "Single end unmapped",
     "Read 2 unmapped", "Paired Reads", "Randomly excluded", "< MAPQ threshold"}

Bump(s, label) == [s EXCEPT !.read_events[label] = @ + 1]

InputReadsRecount(s) == Bump(s, "Input Reads")

Single(read) == [category |-> "single_read", item |-> read]

Mapped(p, k, bundle) == [category |-> "mapped", item |-> bundle, pos |-> p, key |-> k]

Yield(s, y) == [s EXCEPT !.yields = Append(@, y)]

GroupYields(rd, p) ==
    LET ks == SeqOf(DOMAIN rd[p])
    IN [i \in 1..Len(ks) |-> Mapped(p, ks[i], rd[p][ks[i]])]

RECURSIVE FlushYields(_, _)
FlushYields(rd, ps) ==
    IF ps = <<>> THEN <<>>
    ELSE GroupYields(rd, Head(ps)) \o FlushYields(rd, Tail(ps))

(* Mutant of Flush: the groups are yielded and not deleted *)
Flush_NoDelete(s, keys) ==
    [s EXCEPT !.yields = @ \o FlushYields(s.reads_dict, SeqOf(keys))]

(* for p in out_keys: yield every bundle of reads_dict[p]; del both entries *)
Flush(s, keys) ==
    [s EXCEPT !.yields = @ \o FlushYields(s.reads_dict, SeqOf(keys)),
              !.reads_dict = Drop(@, keys),
              !.read_counts = Drop(@, keys)]

(* Mutant of do_output: the window is twice as wide *)
do_output_Wide(read, start, lp, lc) ==
    IF cfg.whole_contig
    THEN read.tid # lc
    ELSE start > (lp + 2 * FlushMargin) \/ read.tid # lc

do_output(read, start, lp, lc) ==
    IF cfg.whole_contig
    THEN read.tid # lc
    ELSE start > (lp + FlushMargin) \/ read.tid # lc

out_keys(rd, read, start, lc) ==
    IF read.tid # lc
    THEN DOMAIN rd
    ELSE {x \in DOMAIN rd : x <= start - FlushMargin}

(* Mutant of KeyChangeFlush: the new key is noted and nothing is flushed *)
KeyChangeFlush_Keep(s, pos) == [s EXCEPT !.last_chr = pos]

(* lines 325-346: the outer key and its flush in per-contig / gene-tag mode *)
KeyChangeFlush(s, pos) ==
    IF pos # s.last_chr
    THEN [Flush(s, DOMAIN s.reads_dict) EXCEPT !.last_chr = pos]
    ELSE s

(* lines 350-371: the window flush of positional mode *)
WindowFlush(s, read, start) ==
    IF do_output(read, start, s.last_pos, s.last_chr)
    THEN [Flush(s, out_keys(s.reads_dict, read, start, s.last_chr))
            EXCEPT !.last_pos = start, !.last_chr = read.tid]
    ELSE s

PositionKey(read, is_spliced) ==
    <<read.is_reverse,
      cfg.spliced /\ is_spliced,
      IF cfg.paired THEN read.tlen ELSE 0,
      IF cfg.read_length THEN read.query_length ELSE 0>>

HasBucket(rd, pos, key, umi) ==
    /\ pos \in DOMAIN rd
    /\ key \in DOMAIN rd[pos]
    /\ umi \in DOMAIN rd[pos][key]

SetBucket(rd, pos, key, umi, b) ==
    LET g == IF pos \in DOMAIN rd THEN rd[pos] ELSE EmptyDict
        bu == IF key \in DOMAIN g THEN g[key] ELSE EmptyDict
    IN Put(rd, pos, Put(g, key, Put(bu, umi, b)))

(* random.random() < 1.0/k for the draw u/Grid *)
RandomBelow(u, k) == u * k < Grid

(* lines 418-431: the multimapping checks on equal MAPQ.  stop: `continue` *)
TagBreak(rep, rc, read) ==
    IF cfg.detection_method \in {"NH", "X0"}
    THEN LET tag == cfg.detection_method IN
         IF opt(rep, tag) < opt(read, tag)
         THEN [stop |-> TRUE, read |-> rep, rc |-> rc]
         ELSE IF opt(rep, tag) > opt(read, tag)
         THEN [stop |-> FALSE, read |-> read, rc |-> 0]
         ELSE [stop |-> FALSE, read |-> rep, rc |-> rc]
    ELSE IF cfg.detection_method = "XT"
    THEN IF opt(rep, "XT") = "U"
         THEN [stop |-> TRUE, read |-> rep, rc |-> rc]
         ELSE IF opt(read, "XT") = "U"
         THEN [stop |-> FALSE, read |-> read, rc |-> 0]
         ELSE [stop |-> FALSE, read |-> rep, rc |-> rc]
    ELSE [stop |-> FALSE, read |-> rep, rc |-> rc]

(* lines 433-437: the reservoir step; rc is the tie counter before it *)
Reservoir(rep, rc, read, ut) ==
    LET k == rc + 1
    IN [read |-> IF RandomBelow(ut, k) THEN read ELSE rep, rc |-> k, drew |-> TRUE]

(* Mutant of Select: a read of higher MAPQ does not replace the representative *)
Select_NoUpgrade(rep, rc, read, ut) ==
    IF rep.mapq # read.mapq
    THEN [read |-> rep, rc |-> rc, drew |-> FALSE]
    ELSE LET t == TagBreak(rep, rc, read) IN
         IF t.stop
         THEN [read |-> rep, rc |-> rc, drew |-> FALSE]
         ELSE Reservoir(t.read, t.rc, read, ut)

(* lines 409-437: the representative of an existing bucket *)
Select(rep, rc, read, ut) ==
    IF rep.mapq > read.mapq
    THEN [read |-> rep, rc |-> rc, drew |-> FALSE]
    ELSE IF rep.mapq < read.mapq
    THEN [read |-> read, rc |-> 0, drew |-> FALSE]
    ELSE LET t == TagBreak(rep, rc, read) IN
         IF t.stop
         THEN [read |-> rep, rc |-> rc, drew |-> FALSE]
         ELSE Reservoir(t.read, t.rc, read, ut)

(* Mutant of Store: a read that does not become the representative is not  *)
(* counted                                                                 *)
Store_CountsKept(s, read, pos, key, umi, ut) ==
    IF ~HasBucket(s.reads_dict, pos, key, umi)
    THEN [s EXCEPT
            !.reads_dict = SetBucket(@, pos, key, umi,
                [read |-> IF cfg.all_reads THEN <<read>> ELSE read,
                 count |-> 1, seen |-> <<read>>]),
            !.read_counts = SetBucket(@, pos, key, umi, 0)]
    ELSE LET b == s.reads_dict[pos][key][umi]
             rc == s.read_counts[pos][key][umi]
         IN IF cfg.all_reads
            THEN [s EXCEPT !.reads_dict[pos][key][umi] =
                     [read |-> Append(b.read, read), count |-> b.count + 1,
                      seen |-> Append(b.seen, read)]]
            ELSE LET sel == Select(b.read, rc, read, ut) IN
                 [s EXCEPT !.reads_dict[pos][key][umi] =
                              [read |-> sel.read,
                               count |-> IF sel.read = read THEN b.count + 1 ELSE b.count,
                               seen |-> Append(b.seen, read)],
                           !.read_counts[pos][key][umi] = sel.rc,
                           !.drew_tie = sel.drew]

(* lines 389-437.  `seen` is a history field (every read assigned to the   *)
(* bucket, in arrival order); the code keeps only `read` and `count`.      *)
Store(s, read, pos, key, umi, ut) ==
    IF ~HasBucket(s.reads_dict, pos, key, umi)
    THEN [s EXCEPT
            !.reads_dict = SetBucket(@, pos, key, umi,
                [read |-> IF cfg.all_reads THEN <<read>> ELSE read,
                 count |-> 1, seen |-> <<read>>]),
            !.read_counts = SetBucket(@, pos, key, umi, 0)]
    ELSE LET b == s.reads_dict[pos][key][umi]
             rc == s.read_counts[pos][key][umi]
         IN IF cfg.all_reads
            THEN [s EXCEPT !.reads_dict[pos][key][umi] =
                     [read |-> Append(b.read, read), count |-> b.count + 1,
                      seen |-> Append(b.seen, read)]]
            ELSE LET sel == Select(b.read, rc, read, ut) IN
                 [s EXCEPT !.reads_dict[pos][key][umi] =
                              [read |-> sel.read, count |-> b.count + 1,
                               seen |-> Append(b.seen, read)],
                           !.read_counts[pos][key][umi] = sel.rc,
                           !.drew_tie = sel.drew]

(* Mutant of Buffer: the outer-key flush comes before the skip-regex test *)
Buffer_FlushThenSkip(s, read, ut) ==
    LET umi == IF cfg.ignore_umi THEN "" ELSE get_umi_read_id(read) IN
    IF cfg.per_contig \/ cfg.gene_tag # NoTag
    THEN LET pos == IF cfg.per_contig THEN read.tid ELSE get_tag(read, cfg.gene_tag) IN
         IF ~cfg.per_contig /\ re_search(cfg.skip_regex, pos)
         THEN KeyChangeFlush(s, pos)
         ELSE Store(KeyChangeFlush(s, pos), read, pos, pos, umi, ut)
    ELSE LET rp == get_read_position(read, cfg.soft_clip_threshold) IN
         Store(WindowFlush(s, read, rp.start), read, rp.pos,
               PositionKey(read, rp.is_spliced), umi, ut)

(* lines 325-437: grouping, flush and storing of a read that passed the filters *)
Buffer(s, read, ut) ==
    LET umi == IF cfg.ignore_umi THEN "" ELSE get_umi_read_id(read) IN
    IF cfg.per_contig \/ cfg.gene_tag # NoTag
    THEN LET pos == IF cfg.per_contig THEN read.tid ELSE get_tag(read, cfg.gene_tag) IN
         IF ~cfg.per_contig /\ re_search(cfg.skip_regex, pos)
         THEN s
         ELSE Store(KeyChangeFlush(s, pos), read, pos, pos, umi, ut)
    ELSE LET rp == get_read_position(read, cfg.soft_clip_threshold) IN
         Store(WindowFlush(s, read, rp.start), read, rp.pos,
               PositionKey(read, rp.is_spliced), umi, ut)

(* random.random() >= subset, subset = cfg.subset/Grid *)
RandomlyExcluded(us) == cfg.subset # 0 /\ us >= cfg.subset

(* Mutant of Filter: no MAPQ threshold *)
Filter_NoMapq(s, read, us, ut) ==
    LET s1 == IF cfg.paired THEN Bump(s, "Paired Reads") ELSE s
        s2 == [s1 EXCEPT !.drew_subset = cfg.subset # 0]
    IN  IF RandomlyExcluded(us)
        THEN Bump(s2, "Randomly excluded")
        ELSE Buffer(s2, read, ut)

(* lines 311-319 and on: the filters after the pairing checks *)
Filter(s, read, us, ut) ==
    LET s1 == IF cfg.paired THEN Bump(s, "Paired Reads") ELSE s
        s2 == [s1 EXCEPT !.drew_subset = cfg.subset # 0]
    IN  IF RandomlyExcluded(us)
        THEN Bump(s2, "Randomly excluded")
        ELSE IF cfg.quality_threshold # 0 /\ read.mapq < cfg.quality_threshold
        THEN Bump(s2, "< MAPQ threshold")
        ELSE Buffer(s2, read, ut)

(* lines 287-299: an unmapped read1 / unpaired read *)
Unmapped(s, read) ==
    LET s1 == Bump(s, IF cfg.paired
                      THEN (IF read.mate_is_unmapped THEN "Both unmapped"
                            ELSE "Read 1 unmapped")
                      ELSE "Single end unmapped")
    IN IF cfg.return_unmapped
       THEN Yield(InputReadsRecount(s1), Single(read))
       ELSE s1

(* Mutant of Iteration: 'Input Reads' is counted before the read2 test *)
Iteration_CountsRead2(s, read, us, ut) ==
    LET s1 == Bump(s, "Input Reads") IN
    IF read.is_read2
    THEN IF cfg.return_read2
            /\ (~read.is_unmapped \/ (read.is_unmapped /\ cfg.return_unmapped))
         THEN Yield(s1, Single(read))
         ELSE s1
    ELSE IF read.is_unmapped
         THEN Unmapped(s1, read)
         ELSE IF read.mate_is_unmapped /\ cfg.paired
         THEN LET s2 == Bump(s1, "Read 2 unmapped") IN
              IF cfg.return_unmapped THEN Yield(s2, Single(read)) ELSE s2
         ELSE Filter(s1, read, us, ut)

(* lines 277-437: one iteration of `for read in inreads` *)
Iteration(s, read, us, ut) ==
    IF read.is_read2
    THEN IF cfg.return_read2
            /\ (~read.is_unmapped \/ (read.is_unmapped /\ cfg.return_unmapped))
         THEN Yield(s, Single(read))
         ELSE s
    ELSE LET s1 == Bump(s, "Input Reads") IN
         IF read.is_unmapped
         THEN Unmapped(s1, read)
         ELSE IF read.mate_is_unmapped /\ cfg.paired
         THEN LET s2 == Bump(s1, "Read 2 unmapped") IN
              IF cfg.return_unmapped THEN Yield(s2, Single(read)) ELSE s2
         ELSE Filter(s1, read, us, ut)

Locals ==
    [last_pos |-> last_pos, last_chr |-> last_chr, reads_dict |-> reads_dict,
     read_counts |-> read_counts, read_events |-> read_events,
     yields |-> <<>>, drew_subset |-> FALSE, drew_tie |-> FALSE]

(* The stream is sorted by (reference, position); unplaced records come anywhere *)
Placed == {i \in 1..Len(inreads) : inreads[i].read.tid # NoRef}

InOrder(read) ==
    IF read.tid = NoRef \/ Placed = {}
    THEN TRUE
    ELSE LET l == inreads[CHOOSE i \in Placed : \A j \in Placed : j <= i].read
         IN IF l.tid = read.tid
            THEN l.pos <= read.pos
            ELSE Rank(l.tid) < Rank(read.tid)

ProcessRead ==
    /\ ~done
    /\ UNCHANGED ucall
    /\ Len(inreads) < MaxReads
    /\ \E tmpl \in pool, us \in Draws, ut \in Draws :
         LET read == [tmpl EXCEPT !.qname[1] = Len(inreads) + 1]
             s == Iteration(Locals, read, us, ut)
         IN /\ InOrder(read)
            /\ (~s.drew_subset => us = 0)
            /\ (~s.drew_tie => ut = 0)
            /\ inreads' = Append(inreads, [read |-> read, us |-> us, ut |-> ut])
            /\ last_pos' = s.last_pos
            /\ last_chr' = s.last_chr
            /\ reads_dict' = s.reads_dict
            /\ read_counts' = s.read_counts
            /\ read_events' = s.read_events
            /\ out' = out \o s.yields
    /\ UNCHANGED <<cfg, pool, done, gc>>
    /\ UNCHANGED writer_vars

(* lines 439-442: the flush after the loop; nothing is deleted *)
EndOfInput ==
    /\ ~done
    /\ UNCHANGED ucall
    /\ done' = TRUE
    /\ out' = out \o FlushYields(reads_dict, SeqOf(DOMAIN reads_dict))
    /\ UNCHANGED <<cfg, pool, inreads, last_pos, last_chr, reads_dict,
                   read_counts, read_events, gc>>
    /\ UNCHANGED writer_vars

----------------------------------------------------------------------------
(* get_gene_count *)

GeneEventLabels ==
    {"Input Reads", "Skipped - Unmapped Reads", "Paired Reads",
     "Skipped - Randomly excluded", "Skipped - < MAPQ threshold",
     "Skipped - matches --skip-tags-regex"}

Perms(S) == {q \in [1..Cardinality(S) -> S] : \A x \in S : \E i \in DOMAIN q : q[i] = x}

(* lines 521-522 and 537-538: `for gene in counts_dict: yield ...`, the    *)
(* keys taken in the order `order`.  The loop variable is the function's   *)
(* own `gene`, which is left at the last key.  from/to are history fields: *)
(* the input records consumed while the yielded accumulator was live.      *)
GeneFlush(g, order, upto) ==
    [g EXCEPT
       !.out = @ \o [i \in 1..Len(order) |->
                       [gene |-> order[i], counts |-> g.counts_dict[order[i]],
                        from |-> g.since, to |-> upto]],
       !.gene = IF order = <<>> THEN @ ELSE Last(order)]

(* lines 531-534: counts_dict[gene][umi]["count"] += 1, or = 1 *)
CountUmi(cd, gene, umi) ==
    LET per == IF gene \in DOMAIN cd THEN cd[gene] ELSE EmptyDict
    IN Put(cd, gene,
           Put(per, umi, [count |-> IF umi \in DOMAIN per THEN per[umi].count + 1 ELSE 1]))

(* lines 519-534: the contig-change flush and the count of a read that     *)
(* passed the filters; g.gene is the read's gene key on entry.             *)
GeneCount(g, read, order, idx) ==
    LET g1 == IF read.tid # g.last_chr
              THEN [GeneFlush(g, order, idx - 1) EXCEPT
                       !.last_chr = read.tid, !.counts_dict = EmptyDict, !.since = idx]
              ELSE g
    IN [g1 EXCEPT !.counts_dict = CountUmi(@, g1.gene, get_umi_read_id(read))]

(* lines 485-534: one iteration of `for read in inreads` *)
GeneIteration(g, read, us, order, idx) ==
    IF read.is_read2 THEN g
    ELSE LET g1 == Bump(g, "Input Reads") IN
         IF read.is_unmapped THEN Bump(g1, "Skipped - Unmapped Reads")
         ELSE LET g2 == IF cfg.paired THEN Bump(g1, "Paired Reads") ELSE g1
                  g3 == [g2 EXCEPT !.drew_subset = cfg.subset # 0]
              IN IF RandomlyExcluded(us)
                 THEN Bump(g3, "Skipped - Randomly excluded")
                 ELSE IF cfg.quality_threshold # 0 /\ read.mapq < cfg.quality_threshold
                 THEN Bump(g3, "Skipped - < MAPQ threshold")
                 ELSE IF cfg.per_contig
                 THEN GeneCount([g3 EXCEPT !.gene = read.tid], read, order, idx)
                 ELSE IF cfg.gene_tag # NoTag
                 THEN LET g4 == [g3 EXCEPT !.gene = get_tag(read, cfg.gene_tag)] IN
                      IF re_search(cfg.skip_regex, g4.gene)
                      THEN Bump(g4, "Skipped - matches --skip-tags-regex")
                      ELSE GeneCount(g4, read, order, idx)
                 ELSE GeneCount(g3, read, order, idx)

(* One iteration of get_gene_count.  The order in which a dictionary gives *)
(* its keys depends on the interpreter: every order is a possible outcome. *)
CountRead ==
    /\ ~done
    /\ UNCHANGED ucall
    /\ Len(inreads) < MaxReads
    /\ \E tmpl \in pool, us \in Draws, order \in Perms(DOMAIN gc.counts_dict) :
         LET read == [tmpl EXCEPT !.qname[1] = Len(inreads) + 1]
             g == GeneIteration([gc EXCEPT !.drew_subset = FALSE], read, us, order,
                                Len(inreads) + 1)
         IN /\ InOrder(read)
            /\ (~g.drew_subset => us = 0)
            /\ (Len(g.out) = Len(gc.out) => order = SeqOf(DOMAIN gc.counts_dict))
            /\ inreads' = Append(inreads, [read |-> read, us |-> us, ut |-> 0])
            /\ gc' = g
    /\ UNCHANGED <<cfg, pool, done>>
    /\ UNCHANGED bundler_vars
    /\ UNCHANGED writer_vars

(* lines 536-538: the yields after the loop *)
CountEnd ==
    /\ ~done
    /\ UNCHANGED ucall
    /\ done' = TRUE
    /\ \E order \in Perms(DOMAIN gc.counts_dict) :
         gc' = GeneFlush(gc, order, Len(inreads))
    /\ UNCHANGED <<cfg, pool, inreads>>
    /\ UNCHANGED bundler_vars
    /\ UNCHANGED writer_vars

----------------------------------------------------------------------------
(* TwoPassPairWriter *)

NoChrom == "None"

MateKey(read) == <<read.query_name, read.next_reference_name, read.next_reference_start>>

OwnKey(read) == <<read.query_name, read.reference_name, read.reference_start>>

(* infile.fetch(reference=...): the records placed on the contig, in file  *)
(* order; every placed record when no contig is given                      *)
fetch(reference) ==
    IF reference = NoChrom
    THEN SelectSeq(infile, LAMBDA r : r.reference_name # NoRef)
    ELSE SelectSeq(infile, LAMBDA r : r.reference_name = reference)

(* Mutant of MateStep: the matched key stays in the pending set *)
MateStep_KeepsKey(w, read) ==
    IF read.is_unmapped \/ read.mate_is_unmapped \/ read.is_read1
    THEN w
    ELSE IF OwnKey(read) \in w.read1s
    THEN [w EXCEPT !.outfile = Append(@, read)]
    ELSE w

(* lines 112-118: the body of the loop of write_mates *)
MateStep(w, read) ==
    IF read.is_unmapped \/ read.mate_is_unmapped \/ read.is_read1
    THEN w
    ELSE IF OwnKey(read) \in w.read1s
    THEN [w EXCEPT !.outfile = Append(@, read), !.read1s = @ \ {OwnKey(read)}]
    ELSE w

RECURSIVE ScanContig(_, _)
ScanContig(w, recs) ==
    IF recs = <<>> THEN w ELSE ScanContig(MateStep(w, Head(recs)), Tail(recs))

write_mates(w) == ScanContig(w, fetch(w.chrom))

(* lines 133-141: the body of the loop of close *)
FinalStep(w, read) ==
    IF read.is_unmapped
    THEN w
    ELSE IF OwnKey(read) \in w.read1s
    THEN [w EXCEPT !.outfile = Append(@, read), !.read1s = @ \ {OwnKey(read)}]
    ELSE w

RECURSIVE ScanAll(_, _)
ScanAll(w, recs) ==
    IF recs = <<>> THEN w ELSE ScanAll(FinalStep(w, Head(recs)), Tail(recs))

(* Mutant of close_writer: no scan of the whole source after the last flush *)
close_NoFinalScan(w) == write_mates(w)

(* lines 122-144: close() *)
close_writer(w) == ScanAll(write_mates(w), infile)

(* Mutant of write_read: the read is written before the mates of the       *)
(* previous contig are recovered                                           *)
write_read_Early(w, read, unmapped) ==
    IF unmapped \/ read.mate_is_unmapped
    THEN [w EXCEPT !.outfile = Append(@, read)]
    ELSE LET w0 == [w EXCEPT !.outfile = Append(@, read)]
             w1 == IF w.chrom # read.reference_name
                   THEN [write_mates(w0) EXCEPT !.chrom = read.reference_name]
                   ELSE w0
         IN [w1 EXCEPT !.read1s = @ \cup {MateKey(read)}]

(* Mutant of write_read: the contig test comes before the unmapped test *)
write_read_FlushFirst(w, read, unmapped) ==
    LET w1 == IF w.chrom # read.reference_name
              THEN [write_mates(w) EXCEPT !.chrom = read.reference_name]
              ELSE w
    IN IF unmapped \/ read.mate_is_unmapped
       THEN [w1 EXCEPT !.outfile = Append(@, read)]
       ELSE [w1 EXCEPT !.read1s = @ \cup {MateKey(read)},
                       !.outfile = Append(@, read)]

(* lines 86-102: write() *)
write_read(w, read, unmapped) ==
    IF unmapped \/ read.mate_is_unmapped
    THEN [w EXCEPT !.outfile = Append(@, read)]
    ELSE LET w1 == IF w.chrom # read.reference_name
                   THEN [write_mates(w) EXCEPT !.chrom = read.reference_name]
                   ELSE w
         IN [w1 EXCEPT !.read1s = @ \cup {MateKey(read)},
                       !.outfile = Append(@, read)]

Writer == [outfile |-> outfile, read1s |-> read1s, chrom |-> chrom]

(* write(read, unmapped=...) on a record of the source not written before *)
Write ==
    /\ ~closed
    /\ UNCHANGED ucall
    /\ Len(calls) < MaxWrites
    /\ \E i \in DOMAIN infile, unmapped \in BOOLEAN :
         /\ \A c \in DOMAIN calls : calls[c].read # infile[i]
         /\ LET w == write_read(Writer, infile[i], unmapped) IN
            /\ outfile' = w.outfile
            /\ read1s' = w.read1s
            /\ chrom' = w.chrom
         /\ calls' = Append(calls, [op |-> "write", read |-> infile[i],
                                    unmapped |-> unmapped])
    /\ UNCHANGED <<infile, closed, cfg, pool, inreads, done, gc>>
    /\ UNCHANGED bundler_vars

Close ==
    /\ ~closed
    /\ UNCHANGED ucall
    /\ closed' = TRUE
    /\ LET w == close_writer(Writer) IN
       /\ outfile' = w.outfile
       /\ read1s' = w.read1s
       /\ chrom' = w.chrom
    /\ UNCHANGED <<infile, calls, cfg, pool, inreads, done, gc>>
    /\ UNCHANGED bundler_vars

----------------------------------------------------------------------------
(* get_umi_read_id, get_umi_tag *)

(* A read name or a tag value is a sequence of characters *)
Chars == {"A", "_", "-"}

Strings == UNION {[1..n -> Chars] : n \in 0..MaxName}

(* str.split(sep): the fields between the separators; never an empty list *)
RECURSIVE split(_, _)
split(s, sep) ==
    IF s = <<>> THEN << <<>> >>
    ELSE LET r == split(Tail(s), sep) IN
         IF Head(s) = sep THEN << <<>> >> \o r
         ELSE << <<Head(s)>> \o Head(r) >> \o Tail(r)

Returns(v) == [kind |-> "return", value |-> v, error |-> ""]

Raises(e) == [kind |-> "raise", value |-> <<>>, error |-> e]

(* lines 37-42: fields[-1] raises IndexError on an empty list of fields,   *)
(* and the handler turns IndexError into ValueError                        *)
umi_read_id(qname, sep) ==
    LET fields == split(qname, sep) IN
    IF Len(fields) = 0 THEN Raises("ValueError") ELSE Returns(fields[Len(fields)])

(* lines 48-55: read.get_tag raises KeyError for a tag the read does not   *)
(* carry; fields[0] raises IndexError on an empty list of fields, and the  *)
(* handler turns IndexError into ValueError                                *)
umi_tag(present, value) ==
    IF ~present THEN Raises("KeyError")
    ELSE LET fields == split(value, "-") IN
         IF Len(fields) = 0 THEN Raises("ValueError") ELSE Returns(fields[1])

NoCall == [fn |-> "", arg |-> <<>>, present |-> FALSE,
           outcome |-> [kind |-> "", value |-> <<>>, error |-> ""]]

IdleGetter == ucall = NoCall

(* get_umi_read_id(read) with the default separator *)
CallReadId ==
    /\ \E qname \in Strings :
         ucall' = [fn |-> "get_umi_read_id", arg |-> qname, present |-> FALSE,
                   outcome |-> umi_read_id(qname, "_")]
    /\ UNCHANGED <<cfg, pool, inreads, done, gc>>
    /\ UNCHANGED bundler_vars
    /\ UNCHANGED writer_vars

(* get_umi_tag(read, tag) on a read that carries the tag or does not *)
CallTag ==
    /\ \E present \in BOOLEAN, value \in Strings :
         /\ (~present => value = <<>>)
         /\ ucall' = [fn |-> "get_umi_tag", arg |-> value, present |-> present,
                      outcome |-> umi_tag(present, value)]
    /\ UNCHANGED <<cfg, pool, inreads, done, gc>>
    /\ UNCHANGED bundler_vars
    /\ UNCHANGED writer_vars

----------------------------------------------------------------------------
(* get_read_position on its own *)

(* CIGAR operations as pysam gives them: (0, n) match, (3, n) skipped      *)
(* region 'N', (4, n) soft clip                                            *)
CigarOps == {<<0, 5>>, <<3, 7>>} \cup {<<4, n>> : n \in 1..MaxClip}

(* CIGARs of an aligned read: a match in them, soft clips at the ends only *)
Cigars ==
    {c \in UNION {[1..n -> CigarOps] : n \in 1..MaxCigar} :
        /\ \E i \in DOMAIN c : c[i][1] = 0
        /\ \A i \in DOMAIN c : c[i][1] = 4 => i = 1 \/ i = Len(c)}

(* read.aend: the start plus the reference bases of the alignment *)
RefLength(c) == SumSeq([i \in DOMAIN c |-> IF c[i][1] = 4 THEN 0 ELSE c[i][2]])

Aligned(rev, c) ==
    [BaseRead EXCEPT !.is_reverse = rev, !.cigar = c, !.aend = BaseRead.pos + RefLength(c)]

(* get_read_position(read, soft_clip_threshold) *)
CallPosition ==
    /\ \E rev \in BOOLEAN, c \in Cigars, th \in 0..MaxClip :
         ucall' = [fn |-> "get_read_position",
                   arg |-> [read |-> Aligned(rev, c), soft_clip_threshold |-> th],
                   present |-> FALSE,
                   outcome |-> get_read_position(Aligned(rev, c), th)]
    /\ UNCHANGED <<cfg, pool, inreads, done, gc>>
    /\ UNCHANGED bundler_vars
    /\ UNCHANGED writer_vars

----------------------------------------------------------------------------
(* Inputs *)

Fwd(tid, pos, clip) ==
    [BaseRead EXCEPT !.tid = tid, !.pos = pos, !.aend = pos + 50,
                     !.cigar = IF clip = 0 THEN << <<0, 50>> >>
                               ELSE << <<4, clip>>, <<0, 50>> >>]

Rev(tid, pos, clip) ==
    [BaseRead EXCEPT !.tid = tid, !.pos = pos, !.aend = pos + 50,
                     !.is_reverse = TRUE,
                     !.cigar = IF clip = 0 THEN << <<0, 50>> >>
                               ELSE << <<0, 50>>, <<4, clip>> >>]

PoolWindow ==
    {Fwd("chr1", p, 0) : p \in {100, 1100, 1101, 2101}}
    \cup {Fwd("chr1", 1101, 1001), Fwd("chr1", 1105, 5),
          Rev("chr1", 100, 0), Rev("chr1", 1101, 5), Fwd("chr2", 100, 0)}

CfgWindow == {[DefaultCfg EXCEPT !.whole_contig = w] : w \in BOOLEAN}

IdleWriter ==
    /\ infile = <<>>
    /\ outfile = <<>>
    /\ read1s = {}
    /\ chrom = NoChrom
    /\ calls = <<>>
    /\ closed = FALSE

CounterStart ==
    gc = [last_chr |-> "", gene |-> "", counts_dict |-> EmptyDict,
          read_events |-> [l \in GeneEventLabels |-> 0], out |-> <<>>,
          since |-> 1, drew_subset |-> FALSE]

IdleCounter == CounterStart

BundlerStart ==
    /\ inreads = <<>>
    /\ last_pos = 0
    /\ last_chr = ""
    /\ reads_dict = EmptyDict
    /\ read_counts = EmptyDict
    /\ read_events = [l \in EventLabels |-> 0]
    /\ out = <<>>
    /\ done = FALSE

InitWindow ==
    /\ cfg \in CfgWindow
    /\ pool = PoolWindow
    /\ BundlerStart
    /\ IdleGetter
    /\ IdleCounter
    /\ IdleWriter

(* Reads at one locus that differ in the fields the filters look at *)
PoolFilter ==
    {[BaseRead EXCEPT !.is_read1 = FALSE, !.is_read2 = TRUE],
     [BaseRead EXCEPT !.is_read1 = FALSE, !.is_read2 = TRUE,
                      !.is_unmapped = TRUE, !.cigar = <<>>],
     [BaseRead EXCEPT !.is_unmapped = TRUE, !.cigar = <<>>],
     [BaseRead EXCEPT !.is_unmapped = TRUE, !.mate_is_unmapped = TRUE,
                      !.tid = NoRef, !.cigar = <<>>],
     [BaseRead EXCEPT !.mate_is_unmapped = TRUE],
     [BaseRead EXCEPT !.mapq = 10],
     BaseRead}

CfgFilter ==
    {[DefaultCfg EXCEPT !.paired = p, !.return_read2 = r2, !.return_unmapped = ru,
                        !.subset = f[1], !.quality_threshold = f[2]] :
        p \in BOOLEAN, r2 \in BOOLEAN, ru \in BOOLEAN,
        f \in {<<0, 0>>, <<1, 20>>}}

InitFilter ==
    /\ cfg \in CfgFilter
    /\ pool = PoolFilter
    /\ BundlerStart
    /\ IdleGetter
    /\ IdleCounter
    /\ IdleWriter

(* Mapped reads that differ in contig, position, gene and barcode *)
Locus(tid, pos, gene, umi) ==
    [BaseRead EXCEPT !.tid = tid, !.pos = pos, !.aend = pos + 50,
                     !.tags.XF = gene, !.qname[2] = umi]

PoolMode ==
    {Locus("chr1", 100, "Gene1", "AAAA"), Locus("chr1", 100, "Gene1", "CCCC"),
     Locus("chr1", 100, "Gene2", "AAAA"), Locus("chr1", 1500, "Gene1", "AAAA"),
     Locus("chr1", 1500, "Unassigned_Ambiguity", "AAAA"),
     Locus("chr2", 100, "Gene2", "AAAA"), Locus("chr2", 100, "Gene1", "CCCC")}

GroupingModes ==
    {DefaultCfg,
     [DefaultCfg EXCEPT !.whole_contig = TRUE],
     [DefaultCfg EXCEPT !.per_contig = TRUE],
     [DefaultCfg EXCEPT !.gene_tag = "XF", !.skip_regex = "Unassigned.*"]}

CfgMode ==
    {[m EXCEPT !.all_reads = a, !.ignore_umi = i] :
        m \in GroupingModes, a \in BOOLEAN, i \in BOOLEAN}

InitMode ==
    /\ cfg \in CfgMode
    /\ pool = PoolMode
    /\ BundlerStart
    /\ IdleGetter
    /\ IdleCounter
    /\ IdleWriter

(* Reads of one bucket that differ in MAPQ and in the multimapping tags *)
Cand(mapq, nh, x0, xt) ==
    [BaseRead EXCEPT !.mapq = mapq, !.tags.NH = nh, !.tags.X0 = x0, !.tags.XT = xt]

PoolTie ==
    {Cand(30, 1, 1, "U"), Cand(30, 2, 2, "R"), Cand(30, 1, 2, "R"),
     Cand(20, 1, 1, "U"), Cand(20, 2, 2, "R")}

CfgTie ==
    {[DefaultCfg EXCEPT !.detection_method = d] : d \in {"none", "NH", "X0", "XT"}}
    \cup {[DefaultCfg EXCEPT !.all_reads = TRUE]}

InitTie ==
    /\ cfg \in CfgTie
    /\ pool = PoolTie
    /\ BundlerStart
    /\ IdleGetter
    /\ IdleCounter
    /\ IdleWriter

(* The gene-level counter on the reads of PoolMode *)
CfgGene ==
    {[m EXCEPT !.quality_threshold = q] :
        m \in {[DefaultCfg EXCEPT !.per_contig = TRUE],
               [DefaultCfg EXCEPT !.gene_tag = "XF", !.skip_regex = "Unassigned.*"]},
        q \in {0, 20}}

InitGene ==
    /\ cfg \in CfgGene
    /\ pool = PoolMode \cup {[Locus("chr1", 100, "Gene1", "AAAA") EXCEPT !.mapq = 10]}
    /\ BundlerStart
    /\ IdleGetter
    /\ CounterStart
    /\ IdleWriter

NextGene == CountRead \/ CountEnd

SpecGene == InitGene /\ [][NextGene]_vars

(* Sources of the writer: two read pairs, in coordinate order *)
SrcRead(q, first, loc, mloc, unm, munm) ==
    [query_name |-> q, is_read1 |-> first, is_read2 |-> ~first,
     reference_name |-> loc[1], reference_start |-> loc[2],
     next_reference_name |-> mloc[1], next_reference_start |-> mloc[2],
     is_unmapped |-> unm, mate_is_unmapped |-> munm]

SrcPair(q, a, b) ==
    {SrcRead(q, TRUE, a, b, FALSE, FALSE), SrcRead(q, FALSE, b, a, FALSE, FALSE)}

Loci == {<<"chr1", 10>>, <<"chr1", 20>>, <<"chr2", 10>>, <<"chr3", 10>>}

SecondPair ==
    {SrcPair("q2", <<"chr2", 10>>, <<"chr1", 10>>),
     {SrcRead("q2", TRUE, <<"chr2", 10>>, <<"chr1", 10>>, FALSE, FALSE)},
     {SrcRead("q2", TRUE, <<"chr2", 10>>, <<"chr2", 10>>, FALSE, FALSE)},
     {SrcRead("q2", TRUE, <<"chr2", 10>>, <<"chr2", 10>>, FALSE, TRUE),
      SrcRead("q2", FALSE, <<"chr2", 10>>, <<"chr2", 10>>, TRUE, FALSE)}}

RecordSets == {SrcPair("q1", a, b) \cup s : a \in Loci, b \in Loci, s \in SecondPair}

FileOrder(a, b) ==
    IF a.reference_name = b.reference_name
    THEN a.reference_start <= b.reference_start
    ELSE Rank(a.reference_name) < Rank(b.reference_name)

Files ==
    UNION {{q \in Perms(S) : \A i, j \in DOMAIN q : i < j => FileOrder(q[i], q[j])} :
             S \in RecordSets}

InitWriter ==
    /\ infile \in Files
    /\ outfile = <<>>
    /\ read1s = {}
    /\ chrom = NoChrom
    /\ calls = <<>>
    /\ closed = FALSE
    /\ cfg = DefaultCfg
    /\ pool = {}
    /\ BundlerStart
    /\ IdleGetter
    /\ CounterStart

InitGetter ==
    /\ cfg = DefaultCfg
    /\ pool = {}
    /\ BundlerStart
    /\ IdleGetter
    /\ CounterStart
    /\ IdleWriter

NextGetter == CallReadId \/ CallTag

SpecGetter == InitGetter /\ [][NextGetter]_vars

NextPosition == CallPosition

SpecPosition == InitGetter /\ [][NextPosition]_vars

NextWriter == Write \/ Close

SpecWriter == InitWriter /\ [][NextWriter]_vars

Init == InitWindow \/ InitFilter \/ InitMode \/ InitTie

NextBundles == ProcessRead \/ EndOfInput

Spec == Init /\ [][NextBundles]_vars

SpecFilter == InitFilter /\ [][NextBundles]_vars

SpecMode == InitMode /\ [][NextBundles]_vars

SpecTie == InitTie /\ [][NextBundles]_vars

SpecWindow == InitWindow /\ [][NextBundles]_vars

----------------------------------------------------------------------------
(* Vocabulary of the properties *)

Range(q) == {q[i] : i \in DOMAIN q}

PositionalMode == ~cfg.per_contig /\ cfg.gene_tag = NoTag

GeneTagMode == ~cfg.per_contig /\ cfg.gene_tag # NoTag

MappedYields == {i \in DOMAIN out : out[i].category = "mapped"}

BundleReads(bundle) == UNION {Range(bundle[u].seen) : u \in DOMAIN bundle}

BundleCount(bundle) ==
    LET us == SeqOf(DOMAIN bundle)
    IN SumSeq([j \in 1..Len(us) |-> bundle[us[j]].count])

LiveBundles == UNION {{reads_dict[p][k] : k \in DOMAIN reads_dict[p]} : p \in DOMAIN reads_dict}

LiveReads == UNION {BundleReads(b) : b \in LiveBundles}

YieldedReads == UNION {BundleReads(out[i].item) : i \in MappedYields}

(* A consumed record that no filter of the pipeline drops *)
Retained(h) ==
    /\ ~h.read.is_read2
    /\ ~h.read.is_unmapped
    /\ ~(cfg.paired /\ h.read.mate_is_unmapped)
    /\ ~(cfg.subset # 0 /\ h.us >= cfg.subset)
    /\ h.read.mapq >= cfg.quality_threshold
    /\ ~(GeneTagMode /\ re_search(cfg.skip_regex, h.read.tags[cfg.gene_tag]))

RetainedSoFar == {i \in DOMAIN inreads : Retained(inreads[i])}

RetainedReads == {inreads[i].read : i \in RetainedSoFar}

LastRead == inreads[Len(inreads)].read

StartOf(read) == get_read_position(read, cfg.soft_clip_threshold).start

(* The (yield, barcode) entries that count a read *)
Holders(r) ==
    UNION {{<<i, u>> : u \in {v \in DOMAIN out[i].item : r \in Range(out[i].item[v].seen)}} :
             i \in MappedYields}

EmittedCount ==
    SumSeq([i \in 1..Len(out) |->
              IF out[i].category = "mapped" THEN BundleCount(out[i].item) ELSE 0])

----------------------------------------------------------------------------
(* C1: once get_bundles is exhausted, the counts of all bundles yielded as *)
(* 'mapped' sum to the number of retained reads, every retained read is    *)
(* counted in exactly one yielded bundle entry, only retained reads are    *)
(* counted, and no bundle is yielded twice.                                *)
C1_Exhaustive ==
    done =>
        /\ EmittedCount = Cardinality(RetainedReads)
        /\ \A r \in RetainedReads : Cardinality(Holders(r)) = 1
        /\ YieldedReads \subseteq RetainedReads
        /\ \A i, j \in MappedYields : i # j => out[i] # out[j]

(* C1: an exhausted run that flushed a group before the end of the input,  *)
(* retained two reads and dropped one.                                     *)
C1_Witness ==
    /\ done
    /\ Cardinality(RetainedReads) >= 2
    /\ Cardinality(RetainedReads) < Len(inreads)
    /\ Cardinality(MappedYields) >= 2
    /\ \E i \in MappedYields : out[i].item \notin LiveBundles

----------------------------------------------------------------------------
(* C2 as claimed: in positional mode without whole_contig, when a read has *)
(* just been buffered, no earlier read of its contig whose start is more   *)
(* than 1000 below its own start is still in the live state.               *)
C2_Window1000 ==
    (PositionalMode /\ ~cfg.whole_contig /\ inreads # <<>> /\ Retained(Last(inreads))) =>
        \A r \in LiveReads :
            r.tid = LastRead.tid => StartOf(LastRead) - StartOf(r) <= FlushMargin

(* The groups the iteration of read B has to flush: all of them on a       *)
(* contig change, those at or below start - 1000 when start is more than   *)
(* 1000 past the last flush point, none otherwise.                         *)
DueGroups(B) ==
    IF B.tid # last_chr
    THEN DOMAIN reads_dict
    ELSE IF StartOf(B) > last_pos + FlushMargin
    THEN {p \in DOMAIN reads_dict : p <= StartOf(B) - FlushMargin}
    ELSE {}

(* C2, amended: in positional mode without whole_contig, the iteration that *)
(* buffers a retained read B first yields every bundle of every due group  *)
(* and deletes those groups, so none of their reads is live once B is      *)
(* buffered; a read at most 1000 past the last flush point on the same     *)
(* contig flushes nothing.                                                 *)
C2_Windowing ==
    [][(PositionalMode /\ ~cfg.whole_contig /\ Len(inreads') = Len(inreads) + 1
        /\ Retained(Last(inreads')))
       => LET B == Last(inreads').read IN
          /\ \A p \in DueGroups(B) : \A k \in DOMAIN reads_dict[p] :
                /\ \E i \in (Len(out) + 1)..Len(out') :
                      /\ out'[i].category = "mapped"
                      /\ out'[i].item = reads_dict[p][k]
                /\ BundleReads(reads_dict[p][k]) \cap LiveReads' = {}
          /\ Len(out') = Len(out) + Cardinality(UNION {{<<p, k>> : k \in DOMAIN reads_dict[p]} :
                                                        p \in DueGroups(B)})
          /\ B \in LiveReads'
      ]_vars

(* C2: a read more than 1000 past the last flush point has been buffered;  *)
(* a group at or below start - 1000 was yielded, a later one is still live *)
C2_Witness ==
    /\ PositionalMode /\ ~cfg.whole_contig /\ ~done
    /\ inreads # <<>> /\ Retained(Last(inreads))
    /\ last_pos = StartOf(LastRead)
    /\ \E i \in MappedYields :
          /\ out[i].pos <= StartOf(LastRead) - FlushMargin
          /\ \A r \in BundleReads(out[i].item) : r.tid = LastRead.tid
    /\ \E r \in LiveReads : r # LastRead

(* C3 as claimed: in positional mode, no live group sits at a coordinate   *)
(* of its contig at which a group has already been flushed.                *)
C3_OneShot ==
    (PositionalMode /\ ~done) =>
        \A p \in DOMAIN reads_dict : \A i \in MappedYields :
            out[i].pos = p => \A r \in BundleReads(out[i].item) : r.tid # last_chr

Buckets(bundle) == {bundle[u] : u \in DOMAIN bundle}

EmittedBundles == {out[i].item : i \in MappedYields}

(* C4: with retain-all-reads off, the representative of every bucket, live *)
(* or yielded, is one of the reads counted into it and its MAPQ is at      *)
(* least the MAPQ of each of them.                                         *)
C4_MonotonicRep ==
    ~cfg.all_reads =>
        \A bundle \in LiveBundles \cup EmittedBundles : \A b \in Buckets(bundle) :
            /\ b.read \in Range(b.seen)
            /\ \A r \in Range(b.seen) : b.read.mapq >= r.mapq

(* C4: a yielded bucket that saw MAPQ 20, then 30, then 20 *)
C4_Witness ==
    /\ ~cfg.all_reads
    /\ \E bundle \in EmittedBundles : \E b \in Buckets(bundle) :
          /\ Len(b.seen) >= 3
          /\ b.seen[1].mapq = 20 /\ b.seen[2].mapq = 30 /\ b.seen[3].mapq = 20
          /\ b.read.mapq = 30

(* The draw the iteration of a read used for the reservoir step *)
TieDraw(read) == inreads[read.qname[1]].ut

(* Uniform reservoir sampling: the j-th tied candidate replaces the        *)
(* representative when its draw is below 1/j.                              *)
RECURSIVE ReservoirPick(_, _)
ReservoirPick(seen, j) ==
    IF j = 1 THEN seen[1]
    ELSE IF TieDraw(seen[j]) * j < Grid THEN seen[j]
    ELSE ReservoirPick(seen, j - 1)

(* C5 as claimed: method none, retain-all-reads off; in a bucket of reads  *)
(* of one MAPQ the j-th arrival replaces the representative exactly when   *)
(* its draw is below 1/j, so the first arrival stays when no draw is.      *)
C5_Reservoir ==
    (cfg.detection_method = "none" /\ ~cfg.all_reads) =>
        \A p \in DOMAIN reads_dict : \A k \in DOMAIN reads_dict[p] :
          \A u \in DOMAIN reads_dict[p][k] :
            LET b == reads_dict[p][k][u] IN
            (\A r \in Range(b.seen) : r.mapq = b.seen[1].mapq) =>
                b.read = ReservoirPick(b.seen, Len(b.seen))

(* C6 as claimed: 'Input Reads' is the number of non-read2 records consumed *)
C6_InputReads ==
    read_events["Input Reads"] =
        Cardinality({i \in DOMAIN inreads : ~inreads[i].read.is_read2})

Occurrences(q, x) == Cardinality({i \in DOMAIN q : q[i] = x})

MatedCall(c) == ~c.unmapped /\ ~c.read.mate_is_unmapped

Mates(read) ==
    {m \in Range(infile) : ~m.is_unmapped /\ m.is_read2 /\ OwnKey(m) = MateKey(read)}

(* The calls the writer's contract is about: the unmapped flag is that of  *)
(* the read, and a mapped read with a mapped mate is a read1 whose mate is *)
(* in the source exactly once.                                             *)
PairedSource ==
    \A i \in DOMAIN calls :
       LET c == calls[i] IN
       /\ c.unmapped = c.read.is_unmapped
       /\ MatedCall(c) => c.read.is_read1 /\ Cardinality(Mates(c.read)) = 1

(* C7: after the write() calls and one close() on such a source no key is  *)
(* pending, and each written read1 and its mate are in the output once.    *)
C7_MateComplete ==
    (closed /\ PairedSource) =>
       /\ read1s = {}
       /\ \A i \in DOMAIN calls :
            MatedCall(calls[i]) =>
              /\ Occurrences(outfile, calls[i].read) = 1
              /\ \A m \in Mates(calls[i].read) : Occurrences(outfile, m) = 1

(* C7: closed after a read1 was written whose mate lies two contigs on,    *)
(* with a read1 of the contig between written after it.                    *)
C7_Witness ==
    /\ closed /\ PairedSource
    /\ \E i, j \in DOMAIN calls :
         /\ i < j /\ MatedCall(calls[i]) /\ MatedCall(calls[j])
         /\ calls[i].read.reference_name = "chr1"
         /\ calls[i].read.next_reference_name = "chr3"
         /\ calls[j].read.reference_name = "chr2"

(* The records write_mates has to recover for the tracked contig *)
DueMates ==
    {m \in Range(fetch(chrom)) :
        /\ ~m.is_unmapped /\ ~m.mate_is_unmapped /\ ~m.is_read1
        /\ OwnKey(m) \in read1s}

(* C8: a write() of a read with a mapped mate leaves the tracked contig at *)
(* the read's contig, its mate key pending and the read last in the        *)
(* output.  With the contig unchanged nothing else is written or removed;  *)
(* with the contig changed, exactly the due mates of the previous contig   *)
(* are written between the old output and the read, and their keys leave   *)
(* the pending set before the read's key enters it.                        *)
C8_WriteOrder ==
    [][(Len(calls') = Len(calls) + 1 /\ MatedCall(Last(calls'))) =>
         LET r == Last(calls').read
             n == Len(outfile)
             n1 == Len(outfile')
         IN /\ chrom' = r.reference_name
            /\ MateKey(r) \in read1s'
            /\ n1 > n
            /\ outfile'[n1] = r
            /\ SubSeq(outfile', 1, n) = outfile
            /\ IF chrom = r.reference_name
               THEN /\ n1 = n + 1
                    /\ read1s' = read1s \cup {MateKey(r)}
               ELSE /\ {outfile'[i] : i \in (n + 1)..(n1 - 1)} = DueMates
                    /\ n1 - 1 - n = Cardinality(DueMates)
                    /\ read1s' = (read1s \ {OwnKey(m) : m \in DueMates})
                                    \cup {MateKey(r)}
      ]_vars

(* C8: a write() on a new contig has recovered a mate of the previous      *)
(* contig and written the read after it.                                   *)
C8_Witness ==
    /\ ~closed
    /\ Len(calls) >= 2
    /\ MatedCall(Last(calls))
    /\ Len(outfile) >= 3
    /\ Last(outfile) = Last(calls).read
    /\ LET m == outfile[Len(outfile) - 1] IN
       /\ m.is_read2
       /\ m.reference_name # chrom
       /\ \A i \in DOMAIN calls : calls[i].read # m

(* The gene key of a read and whether it passes the filters of             *)
(* get_gene_count                                                          *)
GeneKey(read) ==
    IF cfg.per_contig THEN read.tid
    ELSE IF cfg.gene_tag # NoTag THEN get_tag(read, cfg.gene_tag)
    ELSE ""

GeneRetained(i) ==
    LET read == inreads[i].read IN
    /\ ~read.is_read2
    /\ ~read.is_unmapped
    /\ ~RandomlyExcluded(inreads[i].us)
    /\ ~(cfg.quality_threshold # 0 /\ read.mapq < cfg.quality_threshold)
    /\ ~(~cfg.per_contig /\ cfg.gene_tag # NoTag
           /\ re_search(cfg.skip_regex, GeneKey(read)))

(* C9 as claimed: the count yielded for a gene and a barcode is the number *)
(* of retained reads with that gene key and that barcode consumed since    *)
(* the previous flush.                                                     *)
C9_Attribution ==
    \A e \in Range(gc.out) : \A u \in DOMAIN e.counts :
       e.counts[u].count =
          Cardinality({i \in e.from..e.to :
                          /\ GeneRetained(i)
                          /\ GeneKey(inreads[i].read) = e.gene
                          /\ get_umi_read_id(inreads[i].read) = u})

OuterKey(read) ==
    IF cfg.per_contig THEN read.tid
    ELSE IF cfg.gene_tag # NoTag THEN read.tags[cfg.gene_tag]
    ELSE read.tid

(* C10: every live group belongs to the outer key (contig id, gene value;  *)
(* the contig in positional mode) of the most recently buffered read; in   *)
(* per-contig and gene-tag mode the live state holds that one key at most; *)
(* and every retained read that is no longer live has been yielded.        *)
C10_KeyFlush ==
    /\ ~PositionalMode => DOMAIN reads_dict \subseteq {last_chr}
    /\ \A r \in LiveReads : OuterKey(r) = last_chr
    /\ RetainedSoFar # {} =>
          last_chr = OuterKey(inreads[CHOOSE i \in RetainedSoFar :
                                        \A j \in RetainedSoFar : j <= i].read)
    /\ RetainedReads \subseteq LiveReads \cup YieldedReads

(* C10: in per-contig or gene-tag mode a key change has flushed a group    *)
(* and the read that caused it is buffered.                                *)
C10_Witness ==
    /\ ~PositionalMode /\ ~done
    /\ MappedYields # {}
    /\ LiveReads # {}
    /\ \A r \in YieldedReads : OuterKey(r) # last_chr

----------------------------------------------------------------------------
(* The record consumed by the step and whether it reaches the grouping     *)
(* code, i.e. passes every filter before the skip-regex test               *)
Consumed == Len(inreads') = Len(inreads) + 1

ReachesGrouping(h) ==
    /\ ~h.read.is_read2
    /\ ~h.read.is_unmapped
    /\ ~(cfg.paired /\ h.read.mate_is_unmapped)
    /\ ~RandomlyExcluded(h.us)
    /\ ~(cfg.quality_threshold # 0 /\ h.read.mapq < cfg.quality_threshold)

(* C11: in gene-tag mode a read that reaches the grouping code and whose   *)
(* tag value matches skip_regex leaves the groups, the tie counters, the   *)
(* last key, the watermark and the output as they were and increments no   *)
(* counter but 'Input Reads' (and 'Paired Reads'); a read whose tag does   *)
(* not match is buffered under its tag value in a bucket that counts it.   *)
C11_SkipDrop ==
    [][(GeneTagMode /\ Consumed /\ ReachesGrouping(Last(inreads'))) =>
         LET B == Last(inreads').read IN
         IF re_search(cfg.skip_regex, get_tag(B, cfg.gene_tag))
         THEN /\ reads_dict' = reads_dict
              /\ read_counts' = read_counts
              /\ last_chr' = last_chr
              /\ last_pos' = last_pos
              /\ out' = out
              /\ \A l \in EventLabels \ {"Input Reads", "Paired Reads"} :
                    read_events'[l] = read_events[l]
         ELSE /\ last_chr' = get_tag(B, cfg.gene_tag)
              /\ DOMAIN reads_dict' = {get_tag(B, cfg.gene_tag)}
              /\ \E b \in LiveBundles' : \E u \in DOMAIN b :
                    /\ B = Last(b[u].seen)
                    /\ b[u].count = Len(b[u].seen)
      ]_vars

(* C11: a read matching skip_regex has just been dropped while a group of  *)
(* another gene was buffered.                                              *)
C11_Witness ==
    /\ GeneTagMode /\ ~done
    /\ inreads # <<>>
    /\ ReachesGrouping(Last(inreads))
    /\ re_search(cfg.skip_regex, get_tag(LastRead, cfg.gene_tag))
    /\ LiveReads # {}
    /\ last_chr = "Gene1"

----------------------------------------------------------------------------
(* C12 as claimed: get_umi_read_id on a name without the separator, and    *)
(* get_umi_tag on a read without the tag, raise ValueError and return no   *)
(* barcode.                                                                *)
C12_ValueError ==
    /\ (ucall.fn = "get_umi_read_id" /\ "_" \notin Range(ucall.arg)) =>
           ucall.outcome = Raises("ValueError")
    /\ (ucall.fn = "get_umi_tag" /\ ~ucall.present) =>
           ucall.outcome = Raises("ValueError")

----------------------------------------------------------------------------
(* C13: a write() of a read flagged unmapped, or whose mate is unmapped,   *)
(* appends that read to the output and nothing else, and leaves the        *)
(* pending set and the tracked contig as they were, whatever the read's    *)
(* contig.                                                                 *)
C13_WriteThrough ==
    [][(Len(calls') = Len(calls) + 1 /\ ~MatedCall(Last(calls'))) =>
          /\ outfile' = Append(outfile, Last(calls').read)
          /\ read1s' = read1s
          /\ chrom' = chrom
      ]_vars

(* C13: a read was written through on another contig than the tracked one  *)
(* while a mate of the tracked contig was due.                             *)
C13_Witness ==
    /\ ~closed
    /\ calls # <<>>
    /\ ~MatedCall(Last(calls))
    /\ Last(calls).read.reference_name # chrom
    /\ chrom # NoChrom
    /\ DueMates # {}
    /\ Last(outfile) = Last(calls).read

----------------------------------------------------------------------------
(* C14: the iteration that consumes a read2 record changes no event        *)
(* counter, no group, no tie counter, neither the watermark nor the last   *)
(* contig; it yields the record as 'single_read' when return_read2 is set  *)
(* and the record is mapped or return_unmapped is set, and yields nothing  *)
(* otherwise.                                                              *)
C14_Read2 ==
    [][(Consumed /\ Last(inreads').read.is_read2) =>
          LET B == Last(inreads').read IN
          /\ read_events' = read_events
          /\ reads_dict' = reads_dict
          /\ read_counts' = read_counts
          /\ last_pos' = last_pos
          /\ last_chr' = last_chr
          /\ out' = IF cfg.return_read2 /\ (~B.is_unmapped \/ cfg.return_unmapped)
                    THEN Append(out, Single(B))
                    ELSE out
      ]_vars

(* C14: with groups buffered, a mapped read2 has been yielded and an       *)
(* unmapped read2 dropped.                                                 *)
C14_Witness ==
    /\ ~done /\ cfg.return_read2 /\ ~cfg.return_unmapped
    /\ LiveReads # {}
    /\ \E i, j \in DOMAIN inreads :
          /\ inreads[i].read.is_read2 /\ ~inreads[i].read.is_unmapped
          /\ Single(inreads[i].read) \in Range(out)
          /\ inreads[j].read.is_read2 /\ inreads[j].read.is_unmapped
          /\ Single(inreads[j].read) \notin Range(out)

----------------------------------------------------------------------------
(* The bucket of positional mode a read belongs to *)
Slot(B) ==
    LET rp == get_read_position(B, cfg.soft_clip_threshold)
    IN [p |-> rp.pos, k |-> PositionKey(B, rp.is_spliced),
        u |-> IF cfg.ignore_umi THEN "" ELSE get_umi_read_id(B)]

Challenger == Last(inreads').read

OldBucket == reads_dict[Slot(Challenger).p][Slot(Challenger).k][Slot(Challenger).u]

NewBucket == reads_dict'[Slot(Challenger).p][Slot(Challenger).k][Slot(Challenger).u]

OldTies == read_counts[Slot(Challenger).p][Slot(Challenger).k][Slot(Challenger).u]

NewTies == read_counts'[Slot(Challenger).p][Slot(Challenger).k][Slot(Challenger).u]

(* The step stores a read in a bucket that exists, with retain-all-reads   *)
(* off, and the read's MAPQ is that of the bucket's representative.        *)
TiedChallenge ==
    /\ PositionalMode /\ ~cfg.all_reads
    /\ Consumed /\ ReachesGrouping(Last(inreads'))
    /\ LET s == Slot(Challenger) IN
       /\ HasBucket(reads_dict, s.p, s.k, s.u)
       /\ HasBucket(reads_dict', s.p, s.k, s.u)
       /\ NewBucket.seen = Append(OldBucket.seen, Challenger)
    /\ OldBucket.read.mapq = Challenger.mapq

(* C15 as claimed: with method XT and equal MAPQ, a 'U' representative is  *)
(* kept against a non-'U' challenger, a 'U' challenger replaces a non-'U'  *)
(* representative, and with the same flag state on both sides the tie      *)
(* counter is incremented and the challenger replaces the representative   *)
(* when its draw is below 1/counter.                                       *)
C15_XT ==
    [][(cfg.detection_method = "XT" /\ TiedChallenge) =>
          LET repU == opt(OldBucket.read, "XT") = "U"
              newU == opt(Challenger, "XT") = "U"
          IN /\ (repU /\ ~newU) => NewBucket.read = OldBucket.read
             /\ (~repU /\ newU) => NewBucket.read = Challenger
             /\ (repU = newU) =>
                   /\ NewTies = OldTies + 1
                   /\ RandomBelow(Last(inreads').ut, NewTies) =>
                         NewBucket.read = Challenger
      ]_vars

(* C16 as claimed: with method NH or X0 and equal MAPQ, a challenger with  *)
(* a lower tag value becomes the representative and the tie counter is 0   *)
(* afterwards; one with a higher value changes neither; equal values go to *)
(* the reservoir step.                                                     *)
C16_NHX0 ==
    [][(cfg.detection_method \in {"NH", "X0"} /\ TiedChallenge) =>
          LET old == opt(OldBucket.read, cfg.detection_method)
              new == opt(Challenger, cfg.detection_method)
          IN /\ new < old => NewBucket.read = Challenger /\ NewTies = 0
             /\ new > old => NewBucket.read = OldBucket.read /\ NewTies = OldTies
             /\ new = old =>
                   /\ NewTies = OldTies + 1
                   /\ NewBucket.read = IF RandomBelow(Last(inreads').ut, NewTies)
                                        THEN Challenger ELSE OldBucket.read
      ]_vars

----------------------------------------------------------------------------
(* The (position, key, barcode) a read is grouped under, in every mode *)
GroupSlot(B) ==
    LET u == IF cfg.ignore_umi THEN "" ELSE get_umi_read_id(B) IN
    IF PositionalMode THEN <<Slot(B).p, Slot(B).k, u>>
    ELSE <<OuterKey(B), OuterKey(B), u>>

(* The consumed reads a live bucket stands for: retained, grouped under    *)
(* its (position, key, barcode), and not yet yielded                       *)
Members(p, k, u) ==
    {i \in RetainedSoFar :
        /\ GroupSlot(inreads[i].read) = <<p, k, u>>
        /\ inreads[i].read \notin YieldedReads}

(* C17: while the generator runs, the count of every live bucket is the    *)
(* number of retained reads assigned to it since it was created, whether   *)
(* or not they were kept as representative; with retain-all-reads on, the  *)
(* bucket's list holds exactly those reads in arrival order.               *)
C17_BucketCount ==
    ~done =>
    \A p \in DOMAIN reads_dict : \A k \in DOMAIN reads_dict[p] :
      \A u \in DOMAIN reads_dict[p][k] :
        LET b == reads_dict[p][k][u] IN
        /\ b.count = Cardinality(Members(p, k, u))
        /\ cfg.all_reads =>
              /\ Len(b.read) = b.count
              /\ \A j \in DOMAIN b.read :
                    /\ b.read[j].qname[1] \in Members(p, k, u)
                    /\ b.read[j] = inreads[b.read[j].qname[1]].read
                    /\ j > 1 => b.read[j - 1].qname[1] < b.read[j].qname[1]

(* C17: a live bucket that got a read of MAPQ 30 and then one of MAPQ 20,  *)
(* which was discarded as representative, has count 2.                     *)
C17_Witness ==
    /\ ~cfg.all_reads /\ ~done
    /\ \E bundle \in LiveBundles : \E b \in Buckets(bundle) :
          /\ b.count = 2
          /\ Len(b.seen) = 2
          /\ b.seen[1].mapq = 30 /\ b.seen[2].mapq = 20
          /\ b.read = b.seen[1]

----------------------------------------------------------------------------
(* The reads a bundle holds: the representative of each bucket, or the     *)
(* members of its list with retain-all-reads on                            *)
HeldReads(bundle) ==
    UNION {IF cfg.all_reads THEN Range(bundle[u].read) ELSE {bundle[u].read} :
             u \in DOMAIN bundle}

SingleYields == {i \in DOMAIN out : out[i].category = "single_read"}

(* C18: every read held by a bundle yielded as 'mapped' is a mapped,       *)
(* non-read2 read with MAPQ not below a non-zero threshold and, in paired  *)
(* mode, a mapped mate; every 'single_read' item is a read2, an unmapped   *)
(* read or, in paired mode, a read with an unmapped mate, yielded with     *)
(* return_read2 set for a read2 and return_unmapped set otherwise; and no  *)
(* read is yielded under both categories.                                  *)
C18_FilterSafety ==
    /\ \A i \in MappedYields : \A r \in HeldReads(out[i].item) :
          /\ ~r.is_read2 /\ ~r.is_unmapped
          /\ cfg.quality_threshold # 0 => r.mapq >= cfg.quality_threshold
          /\ cfg.paired => ~r.mate_is_unmapped
          /\ \A j \in SingleYields : out[j].item # r
    /\ \A j \in SingleYields :
          LET r == out[j].item IN
          /\ r.is_read2 \/ r.is_unmapped \/ (cfg.paired /\ r.mate_is_unmapped)
          /\ r.is_read2 => cfg.return_read2
          /\ ~r.is_read2 => cfg.return_unmapped

(* C18: with a MAPQ threshold, a read below it was consumed, a bundle was  *)
(* yielded as 'mapped' and a read with an unmapped mate as 'single_read'.  *)
C18_Witness ==
    /\ cfg.quality_threshold # 0 /\ cfg.paired
    /\ MappedYields # {}
    /\ \E i \in DOMAIN inreads :
          /\ ReachesGrouping([inreads[i] EXCEPT !.read.mapq = cfg.quality_threshold])
          /\ inreads[i].read.mapq < cfg.quality_threshold
    /\ \E j \in SingleYields :
          ~out[j].item.is_read2 /\ ~out[j].item.is_unmapped

----------------------------------------------------------------------------
(* The records a step of the writer wrote by re-scanning the source: what  *)
(* close() appended, or what write() appended before the read it was given *)
Rescanned ==
    IF closed' # closed
    THEN SubSeq(outfile', Len(outfile) + 1, Len(outfile'))
    ELSE SubSeq(outfile', Len(outfile) + 1, Len(outfile') - 1)

Inserted == {MateKey(calls[i].read) : i \in {j \in DOMAIN calls : MatedCall(calls[j])}}

(* C19: in every write() and in close(), the records written by the        *)
(* re-scan have pairwise different keys, each key was pending, and exactly *)
(* those keys leave the pending set (write() then adds the key of its      *)
(* read); after close() the pending keys are the inserted keys that no     *)
(* mapped record of the source carries.                                    *)
C19_PendingSet ==
    [][(Len(outfile') > Len(outfile)) =>
          LET removed == {OwnKey(m) : m \in Range(Rescanned)}
              added == IF closed' = closed /\ MatedCall(Last(calls'))
                       THEN {MateKey(Last(calls').read)} ELSE {}
          IN /\ Cardinality(removed) = Len(Rescanned)
             /\ removed \subseteq read1s
             /\ read1s' = (read1s \ removed) \cup added
      ]_vars
    /\ [](closed =>
            read1s = {k \in Inserted :
                         ~\E m \in Range(infile) : ~m.is_unmapped /\ OwnKey(m) = k})

(* C19: after close() one inserted key was matched by the re-scan of a     *)
(* contig, one by the final scan, and one is left as never found.          *)
C19_Witness ==
    /\ closed
    /\ Cardinality(Inserted) = 3
    /\ Cardinality(read1s) = 1
    /\ \E i \in DOMAIN calls :
          /\ MatedCall(calls[i])
          /\ Rank(calls[i].read.next_reference_name) < Rank(calls[i].read.reference_name)
          /\ \E m \in Range(outfile) : m.is_read2 /\ OwnKey(m) = MateKey(calls[i].read)

(* C20 as claimed: with read1 records passed to write(), every record      *)
(* written by a re-scan, in write() or in close(), is a mapped record that *)
(* is not read1 and whose key was pending.                                 *)
C20_Recovered ==
    [][(\A i \in DOMAIN calls' : calls'[i].read.is_read1) =>
          \A m \in Range(Rescanned) :
             /\ ~m.is_unmapped
             /\ ~m.is_read1
             /\ OwnKey(m) \in read1s
      ]_vars

----------------------------------------------------------------------------
(* The soft clips of a CIGAR and its 'N' operation, as the claim has them *)
LeadingClip(c) == IF c[1][1] = 4 THEN c[1][2] ELSE 0

TrailingClip(c) == IF c[Len(c)][1] = 4 THEN c[Len(c)][2] ELSE 0

HasSplice(c) == \E i \in DOMAIN c : c[i][1] = 3

====
